---- MODULE Spec2Model ----
(***************************************************************************)
(* Model of the caption overlay tools (text_overlay.py,                    *)
(* text_overlay_pov.py) and of the pipeline that drives them (pipeline.py).*)
(*                                                                         *)
(* Text is a sequence of one-character strings.  A font is a record        *)
(* [size, left]: glyph advances are proportional to the pixel size and     *)
(* `left` is the horizontal offset of the box textbbox reports for text    *)
(* anchored at (0, 0).                                                     *)
(***************************************************************************)
EXTENDS Integers, Sequences, FiniteSets, TLC

VARIABLES fs, self, pc, call, loc, sink, result, args, ret

vars == <<fs, self, pc, call, loc, sink, result, args, ret>>

None == "None"

(***************************************************************************)
(* Font files                                                              *)
(***************************************************************************)
Custom == "custom.ttf"

system_fonts ==
    << "dejavu/DejaVuSans-Bold.ttf", "liberation/LiberationSans-Bold.ttf",
       "ubuntu/Ubuntu-Bold.ttf", "freefont/FreeSansBold.ttf" >>

comic_sans_paths == << "msttcorefonts/Comic_Sans_MS.ttf", "comic/comic.ttf" >>

Range(s) == { s[i] : i \in DOMAIN s }

FontFiles == Range(system_fonts) \cup Range(comic_sans_paths) \cup {Custom}

\* The values a caller passes as font_path.
FontArgs == {None, "", Custom}

FileNotFoundError == "FileNotFoundError"

\* font_path and os.path.exists(font_path)
Truthy(font_path) == font_path # None /\ font_path # ""

exists(path, files) == path \in files

\* for font in fonts: if os.path.exists(font): ...; break   (None: the loop
\* ran to its end without a break)
RECURSIVE FirstExistingFrom(_, _, _)
FirstExistingFrom(fonts, i, files) ==
    IF i > Len(fonts) THEN None
    ELSE IF exists(fonts[i], files) THEN fonts[i]
    ELSE FirstExistingFrom(fonts, i + 1, files)

\* A mutant of FirstExisting: the loop has no break, so the last existing
\* candidate wins.
RECURSIVE LastExistingFrom(_, _, _)
LastExistingFrom(fonts, i, files) ==
    IF i < 1 THEN None
    ELSE IF exists(fonts[i], files) THEN fonts[i]
    ELSE LastExistingFrom(fonts, i - 1, files)

FirstExisting_NoBreak(fonts, files) == LastExistingFrom(fonts, Len(fonts), files)

\* The first candidate that exists, None when none does.
FirstExisting(fonts, files) == FirstExistingFrom(fonts, 1, files)

\* TextOverlay.__init__: the font_path it sets, or the error it raises.
TextOverlay_init(font_path, files) ==
    IF Truthy(font_path) /\ exists(font_path, files)
    THEN [font_path |-> font_path, raised |-> None]
    ELSE LET font == FirstExisting(system_fonts, files)
         IN  IF font # None
             THEN [font_path |-> font, raised |-> None]
             ELSE [font_path |-> None, raised |-> FileNotFoundError]

\* POVTextOverlay.__init__
POVTextOverlay_init(font_path, files) ==
    LET found_font ==
            IF Truthy(font_path) /\ exists(font_path, files)
            THEN font_path
            ELSE FirstExisting(comic_sans_paths, files)
    IN  IF found_font # None
        THEN [font_path |-> found_font, raised |-> None]
        ELSE LET font == FirstExisting(system_fonts, files)
             IN  IF font # None
                 THEN [font_path |-> font, raised |-> None]
                 ELSE [font_path |-> None, raised |-> FileNotFoundError]

\* A mutant of ContentPipeline_init: the constructor catches the overlay's
\* error and carries on without a font.
ContentPipeline_init_Swallow(files) ==
    [ POVTextOverlay_init(None, files) EXCEPT !.raised = None ]

\* ContentPipeline.__init__: builds POVTextOverlay(output_dir=OUTPUT_DIR)
\* with no font_path and no try block around it, so what the overlay raises
\* leaves the constructor.
ContentPipeline_init(files) == POVTextOverlay_init(None, files)

(***************************************************************************)
(* Text, fonts and measurement                                             *)
(***************************************************************************)
Chars == {"a", "W", " "}

IsSpace(ch) == ch = " " \/ ch = "\n"

\* Glyph advance in units of the font's pixel size.
Units(ch) == IF ch = "W" THEN 2 ELSE 1

Advance(font, ch) == font.size * Units(ch)

RECURSIVE LineWidth(_, _)
LineWidth(font, line) ==
    IF line = <<>> THEN 0
    ELSE Advance(font, Head(line)) + LineWidth(font, Tail(line))

Max(a, b) == IF a >= b THEN a ELSE b

\* str.split(sep) for a one-character sep: the pieces between separators,
\* empty pieces included ("" gives one empty piece).
RECURSIVE SplitOn(_, _, _)
SplitOn(text, sep, piece) ==
    IF text = <<>> THEN << piece >>
    ELSE IF Head(text) = sep
         THEN << piece >> \o SplitOn(Tail(text), sep, <<>>)
         ELSE SplitOn(Tail(text), sep, Append(piece, Head(text)))

\* str.split(): the maximal runs of non-whitespace characters.
RECURSIVE SplitWords(_, _)
SplitWords(text, word) ==
    IF text = <<>> THEN (IF word = <<>> THEN <<>> ELSE << word >>)
    ELSE IF IsSpace(Head(text))
         THEN (IF word = <<>> THEN <<>> ELSE << word >>)
              \o SplitWords(Tail(text), <<>>)
         ELSE SplitWords(Tail(text), Append(word, Head(text)))

split(text) == SplitWords(text, <<>>)

\* sep.join(parts)
RECURSIVE join(_, _)
join(sep, parts) ==
    IF parts = <<>> THEN <<>>
    ELSE IF Len(parts) = 1 THEN parts[1]
    ELSE parts[1] \o sep \o join(sep, Tail(parts))

\* Spacing PIL puts between the lines of a multi-line text (its default).
LineSpacing == 4

RECURSIVE MaxLineWidth(_, _)
MaxLineWidth(font, lines) ==
    IF lines = <<>> THEN 0
    ELSE Max(LineWidth(font, Head(lines)), MaxLineWidth(font, Tail(lines)))

\* draw.textbbox((0, 0), text, font=font): <<left, top, right, bottom>> of
\* the text anchored at the origin.  The box of a multi-line text is as
\* wide as its widest line; the empty text has the empty box.
textbbox(text, font) ==
    IF text = <<>> THEN << 0, 0, 0, 0 >>
    ELSE LET lines == SplitOn(text, "\n", <<>>)
             n     == Len(lines)
         IN  << font.left, 0,
                font.left + MaxLineWidth(font, lines),
                n * font.size + (n - 1) * LineSpacing >>

\* The box of the same text drawn by draw.text(position, text, font=font).
RenderedBBox(position, bbox) ==
    << position[1] + bbox[1], position[2] + bbox[2],
       position[1] + bbox[3], position[2] + bbox[4] >>

(***************************************************************************)
(* TextOverlay.wrap_text: greedy wrap by measured width                    *)
(***************************************************************************)
\* A mutant of WrapLoop: the word that does not fit is still put on the
\* line being closed.
RECURSIVE WrapLoop_KeepsOverflow(_, _, _, _, _)
WrapLoop_KeepsOverflow(words, current_line, wrapped_lines, font, max_width) ==
    IF words = <<>>
    THEN IF current_line # <<>>
         THEN Append(wrapped_lines, join(<<" ">>, current_line))
         ELSE wrapped_lines
    ELSE LET word       == Head(words)
             test_line  == join(<<" ">>, Append(current_line, word))
             text_bbox  == textbbox(test_line, font)
             text_width == text_bbox[3] - text_bbox[1]
         IN  IF text_width <= max_width
             THEN WrapLoop_KeepsOverflow(Tail(words), Append(current_line, word),
                                         wrapped_lines, font, max_width)
             ELSE WrapLoop_KeepsOverflow(Tail(words), <<>>,
                                         Append(wrapped_lines, test_line),
                                         font, max_width)

\* A mutant of WrapLoop: a word that fills the line exactly is taken not to
\* fit (text_width < max_width).
RECURSIVE WrapLoop_Strict(_, _, _, _, _)
WrapLoop_Strict(words, current_line, wrapped_lines, font, max_width) ==
    IF words = <<>>
    THEN IF current_line # <<>>
         THEN Append(wrapped_lines, join(<<" ">>, current_line))
         ELSE wrapped_lines
    ELSE LET word       == Head(words)
             test_line  == join(<<" ">>, Append(current_line, word))
             text_bbox  == textbbox(test_line, font)
             text_width == text_bbox[3] - text_bbox[1]
         IN  IF text_width < max_width
             THEN WrapLoop_Strict(Tail(words), Append(current_line, word),
                                  wrapped_lines, font, max_width)
             ELSE WrapLoop_Strict(Tail(words), << word >>,
                                  IF current_line # <<>>
                                  THEN Append(wrapped_lines, join(<<" ">>, current_line))
                                  ELSE wrapped_lines,
                                  font, max_width)

\* The loop of wrap_text over the words, then "add the last line".
RECURSIVE WrapLoop(_, _, _, _, _)
WrapLoop(words, current_line, wrapped_lines, font, max_width) ==
    IF words = <<>>
    THEN IF current_line # <<>>
         THEN Append(wrapped_lines, join(<<" ">>, current_line))
         ELSE wrapped_lines
    ELSE LET word       == Head(words)
             test_line  == join(<<" ">>, Append(current_line, word))
             text_bbox  == textbbox(test_line, font)
             text_width == text_bbox[3] - text_bbox[1]
         IN  IF text_width <= max_width
             THEN WrapLoop(Tail(words), Append(current_line, word),
                           wrapped_lines, font, max_width)
             ELSE WrapLoop(Tail(words), << word >>,
                           IF current_line # <<>>
                           THEN Append(wrapped_lines, join(<<" ">>, current_line))
                           ELSE wrapped_lines,
                           font, max_width)

wrap_text(text, font, max_width) ==
    join(<<"\n">>, WrapLoop(split(text), <<>>, <<>>, font, max_width))

(***************************************************************************)
(* POVTextOverlay.wrap_text: wrap by character count (textwrap.wrap)       *)
(***************************************************************************)
\* int(a / b) for b > 0: the quotient truncated toward zero.
TruncDiv(a, b) == IF a >= 0 THEN a \div b ELSE -((-a) \div b)

\* The chunks textwrap splits a text into: maximal runs of whitespace and
\* of non-whitespace characters, in order.
RECURSIVE ChunksFrom(_, _)
ChunksFrom(text, chunk) ==
    IF text = <<>> THEN (IF chunk = <<>> THEN <<>> ELSE << chunk >>)
    ELSE IF chunk = <<>> \/ IsSpace(Head(text)) = IsSpace(chunk[1])
         THEN ChunksFrom(Tail(text), Append(chunk, Head(text)))
         ELSE << chunk >> \o ChunksFrom(Tail(text), << Head(text) >>)

IsBlank(chunk) == \A i \in DOMAIN chunk : IsSpace(chunk[i])

RECURSIVE Flatten(_)
Flatten(parts) == IF parts = <<>> THEN <<>> ELSE Head(parts) \o Flatten(Tail(parts))

\* The inner loop of TextWrapper._wrap_chunks: take chunks while they fit.
RECURSIVE Fill(_, _, _, _)
Fill(chunks, cur_line, cur_len, width) ==
    IF chunks # <<>> /\ cur_len + Len(Head(chunks)) <= width
    THEN Fill(Tail(chunks), Append(cur_line, Head(chunks)),
              cur_len + Len(Head(chunks)), width)
    ELSE [cur_line |-> cur_line, cur_len |-> cur_len, chunks |-> chunks]

\* TextWrapper._handle_long_word with break_long_words: the part of the
\* chunk that fits in the space left goes on the line, the rest stays.
HandleLongWord(f, width) ==
    LET space_left == IF width < 1 THEN 1 ELSE width - f.cur_len
        chunk      == Head(f.chunks)
    IN  [cur_line |-> Append(f.cur_line, SubSeq(chunk, 1, space_left)),
         chunks   |-> << SubSeq(chunk, space_left + 1, Len(chunk)) >>
                      \o Tail(f.chunks)]

\* The outer loop of TextWrapper._wrap_chunks (drop_whitespace, no indent).
RECURSIVE WrapChunks(_, _, _)
WrapChunks(chunks, lines, width) ==
    IF chunks = <<>> THEN lines
    ELSE LET c0  == IF IsBlank(Head(chunks)) /\ lines # <<>>
                    THEN Tail(chunks) ELSE chunks
             f   == Fill(c0, <<>>, 0, width)
             g   == IF f.chunks # <<>> /\ Len(Head(f.chunks)) > width
                    THEN HandleLongWord(f, width)
                    ELSE [cur_line |-> f.cur_line, chunks |-> f.chunks]
             cur == IF g.cur_line # <<>> /\ IsBlank(g.cur_line[Len(g.cur_line)])
                    THEN SubSeq(g.cur_line, 1, Len(g.cur_line) - 1)
                    ELSE g.cur_line
         IN  WrapChunks(g.chunks,
                        IF cur # <<>> THEN Append(lines, Flatten(cur)) ELSE lines,
                        width)

\* textwrap.wrap(text, width=width): the lines, or the error it raises.
textwrap_wrap(text, width) ==
    IF width <= 0
    THEN [raised |-> "ValueError", value |-> <<>>]
    ELSE [raised |-> None, value |-> WrapChunks(ChunksFrom(text, <<>>), <<>>, width)]

\* POVTextOverlay.wrap_text.  font.size * 0.5 is zero for a font of size 0.
wrap_text_pov(text, font, max_width) ==
    IF font.size = 0
    THEN [raised |-> "ZeroDivisionError", value |-> <<>>]
    ELSE LET lines == textwrap_wrap(text, TruncDiv(2 * max_width, font.size))
         IN  [raised |-> lines.raised, value |-> join(<<"\n">>, lines.value)]

(***************************************************************************)
(* draw_text_with_outline (both overlays)                                  *)
(***************************************************************************)
White == "(255, 255, 255, 255)"
Black == "(0, 0, 0, 255)"

\* outline_width=2, the default neither caller overrides.
DefaultOutlineWidth == 2

DrawText(position, text, font, fill, align) ==
    [xy |-> position, text |-> text, font |-> font, fill |-> fill, align |-> align]

\* The k-th pair of the two nested loops over range(-w, w + 1).
Offset(k, w) == << ((k - 1) \div (2 * w + 1)) - w, ((k - 1) % (2 * w + 1)) - w >>

\* The draw.text calls of the outline loops, in the order they are made.
OutlineDraws(position, text, font, outline, w, align) ==
    LET offsets == [k \in 1..((2 * w + 1) * (2 * w + 1)) |-> Offset(k, w)]
        kept    == SelectSeq(offsets, LAMBDA o : ~(o[1] = 0 /\ o[2] = 0))
    IN  [k \in 1..Len(kept) |->
            DrawText(<< position[1] + kept[k][1], position[2] + kept[k][2] >>,
                     text, font, outline, align)]

\* A mutant of draw_text_with_outline: the main text is drawn before the
\* outline passes.
draw_text_with_outline_FillFirst(position, text, font, fill, outline, outline_width, align) ==
    << DrawText(position, text, font, fill, align) >>
    \o OutlineDraws(position, text, font, outline, outline_width, align)

\* The draw.text calls draw_text_with_outline makes, in order.
draw_text_with_outline(position, text, font, fill, outline, outline_width, align) ==
    OutlineDraws(position, text, font, outline, outline_width, align)
    \o << DrawText(position, text, font, fill, align) >>

(***************************************************************************)
(* The vignette of add_text_to_image / add_pov_text_to_image               *)
(***************************************************************************)
\* for i in range(100)
BandCount == 100

Pixels(width, height) == (0..(width - 1)) \X (0..(height - 1))

\* Whether draw.rectangle of band i covers pixel p.  The corners
\* width/2 -+ width/2 * (1 - i/100) are truncated to integers, and the
\* rectangle includes both corners.
InBand(i, p, width, height) ==
    /\ (width * i) \div (2 * BandCount) <= p[1]
    /\ p[1] <= (width * (2 * BandCount - i)) \div (2 * BandCount)
    /\ (height * i) \div (2 * BandCount) <= p[2]
    /\ p[2] <= (height * (2 * BandCount - i)) \div (2 * BandCount)

\* alpha = int(100 - i)
BandAlpha(i) == 100 - i

\* A mutant of DrawBand: the rectangle is blended over what the overlay
\* holds (the alphas add up) instead of replacing it.
DrawBand_Blend(overlay, i, width, height) ==
    [p \in DOMAIN overlay |->
        IF InBand(i, p, width, height)
        THEN overlay[p] + ((255 - overlay[p]) * BandAlpha(i)) \div 255
        ELSE overlay[p]]

\* draw.rectangle(..., fill=(0, 0, 0, alpha)) on the RGBA overlay: the
\* pixels of the rectangle are set to the fill; nothing is blended.
DrawBand(overlay, i, width, height) ==
    [p \in DOMAIN overlay |->
        IF InBand(i, p, width, height) THEN BandAlpha(i) ELSE overlay[p]]

Div255(a) == ((a \div 256) + a) \div 256

\* One colour channel of Image.alpha_composite for a black source pixel of
\* alpha a over an opaque destination pixel of value v.
CompositeBlack(v, a) ==
    IF a = 0 THEN v ELSE Div255(v * (255 - a) * 128 + 128 * 128) \div 128

\* Image.alpha_composite(img_with_text, overlay)
alpha_composite(img, overlay) ==
    [p \in DOMAIN img |-> CompositeBlack(img[p], overlay[p])]

(***************************************************************************)
(* The program: one overlay object (or a pipeline holding one) is          *)
(* constructed, then render calls run on it stage by stage.                *)
(***************************************************************************)
\* Inputs of the render calls.
ImageWidths == {10, 30, 100}
ImageHeights == {100}
Captions == { <<>>, << " " >>, << "a" >>, << "a", " ", "W" >> }

\* The quotes ContentPipeline._load_quotes keeps: stripped and non-empty.
Quotes == { c \in Captions : c # <<>> /\ ~IsSpace(c[1]) /\ ~IsSpace(c[Len(c)]) }

\* Largest horizontal offset of a font's text box.
MaxLeft == 1

TextStages == << "open", "vignette", "font", "wrap", "measure", "draw", "convert", "save" >>
POVStages == << "open", "vignette", "font", "label", "wrap", "measure", "draw", "convert", "save" >>

StagesOf(method) == IF method = "add_text_to_image" THEN TextStages ELSE POVStages

\* A mutant of NextStage: the image is saved right after the text is drawn,
\* before the conversion to RGB.
NextStage_SaveBeforeConvert(method, stage) ==
    IF stage = "draw" THEN "save"
    ELSE IF stage = "save" THEN "return"
    ELSE LET st == StagesOf(method)
             i  == CHOOSE k \in DOMAIN st : st[k] = stage
         IN  st[i + 1]

\* The stage after `stage` in the body of the try block.
NextStage(method, stage) ==
    LET st == StagesOf(method)
        i  == CHOOSE k \in DOMAIN st : st[k] = stage
    IN  IF i = Len(st) THEN "return" ELSE st[i + 1]

NoCall == [method |-> None, width |-> 0, height |-> 0, text |-> <<>>,
           output_filename |-> None, fault |-> None]

NoLoc == [img |-> None, font |-> None, pov_font |-> None, wrapped |-> None,
          pov |-> None, pos |-> None, done |-> <<>>, failed |-> None,
          exc |-> None, output_filename |-> None, sinkcalls |-> 0,
          printed |-> None]

NoSelf == [cls |-> None, arg |-> None, font_path |-> None, raised |-> None]

Idle ==
    /\ self = NoSelf
    /\ pc = "idle"
    /\ call = NoCall
    /\ loc = NoLoc
    /\ sink = {}
    /\ result = None

Init ==
    /\ fs \in SUBSET FontFiles
    /\ Idle
    /\ args = None
    /\ ret = None

(* Constructors *)
NewTextOverlay(font_path) ==
    /\ self.cls = None
    /\ self' = [cls |-> "TextOverlay", arg |-> font_path] @@ TextOverlay_init(font_path, fs)
    /\ UNCHANGED <<fs, pc, call, loc, sink, result, args, ret>>

NewPOVTextOverlay(font_path) ==
    /\ self.cls = None
    /\ self' = [cls |-> "POVTextOverlay", arg |-> font_path] @@ POVTextOverlay_init(font_path, fs)
    /\ UNCHANGED <<fs, pc, call, loc, sink, result, args, ret>>

NewContentPipeline ==
    /\ self.cls = None
    /\ self' = [cls |-> "ContentPipeline", arg |-> None] @@ ContentPipeline_init(fs)
    /\ UNCHANGED <<fs, pc, call, loc, sink, result, args, ret>>

\* The method a caller can reach on the object, and the captions and output
\* names it passes: generate_content calls add_pov_text_to_image with a
\* loaded quote and a post_pov_NNN.jpg name.
MethodOf(cls) == IF cls = "TextOverlay" THEN "add_text_to_image" ELSE "add_pov_text_to_image"
CaptionsOf(cls) == IF cls = "ContentPipeline" THEN Quotes ELSE Captions
OutputNameOf(cls) == IF cls = "ContentPipeline" THEN "post_pov.jpg" ELSE None

\* A render call starts.  It needs an object: a constructor that raised
\* left none behind.
CanRender ==
    /\ self.cls # None
    /\ self.raised = None
    /\ pc = "idle"

StartRenderWith(w, h, text, fault) ==
    /\ call' = [method |-> MethodOf(self.cls), width |-> w, height |-> h,
                text |-> text, output_filename |-> OutputNameOf(self.cls),
                fault |-> fault]
    /\ loc' = NoLoc
    /\ result' = None
    /\ pc' = "open"
    /\ UNCHANGED <<fs, self, sink, args, ret>>

StartRender ==
    /\ CanRender
    /\ \E w \in ImageWidths, h \in ImageHeights, text \in CaptionsOf(self.cls),
          fault \in Range(StagesOf(MethodOf(self.cls))) \cup {None} :
            StartRenderWith(w, h, text, fault)

\* A statement of the try block raises: control goes to the except clause.
Raise(stage, error) ==
    /\ loc' = [loc EXCEPT !.failed = stage, !.exc = error]
    /\ pc' = "except"
    /\ UNCHANGED <<fs, self, call, sink, result, args, ret>>

\* A stage completes with the locals it assigns.
Complete(stage, newloc) ==
    /\ loc' = [newloc EXCEPT !.done = Append(loc.done, stage)]
    /\ pc' = NextStage(call.method, stage)
    /\ UNCHANGED <<fs, self, call, sink, result, args, ret>>

Faulty(stage) == call.fault = stage

(* Image.open(image_path).convert("RGBA"); img.copy(); img.size *)
Open ==
    /\ pc = "open"
    /\ \/ /\ Faulty("open")
          /\ Raise("open", "UnidentifiedImageError")
       \/ /\ ~Faulty("open")
          /\ Complete("open",
                [loc EXCEPT !.img = [mode |-> "RGBA",
                                     size |-> << call.width, call.height >>,
                                     vignette |-> FALSE, draws |-> <<>>]])

(* The overlay, its 100 rectangles and Image.alpha_composite.  The image is
   kept here as the list of what was done to it; SpecCalls runs the same
   statements on the pixels. *)
Vignette ==
    /\ pc = "vignette"
    /\ \/ /\ Faulty("vignette")
          /\ Raise("vignette", "Exception")
       \/ /\ ~Faulty("vignette")
          /\ Complete("vignette", [loc EXCEPT !.img.vignette = TRUE])

\* int(width / 15), int(width / 12), int(width / 18)
TextFontDivisor == 15
POVFontDivisor == 12
QuoteFontDivisor == 18

(* ImageFont.truetype(self.font_path, font_size): a size of 0 is refused.
   The horizontal offset of the text box is a property of the font file. *)
LoadFontOf(lefts) ==
    /\ pc = "font"
    /\ LET font_size == call.width \div (IF call.method = "add_text_to_image"
                                         THEN TextFontDivisor ELSE QuoteFontDivisor)
           pov_font_size == call.width \div POVFontDivisor
       IN  \/ /\ Faulty("font")
              /\ Raise("font", "OSError")
           \/ /\ ~Faulty("font")
              /\ font_size <= 0
              /\ Raise("font", "ValueError")
           \/ /\ ~Faulty("font")
              /\ font_size > 0
              /\ \E left \in lefts :
                    Complete("font",
                        [loc EXCEPT !.font = [size |-> font_size, left |-> left],
                                    !.pov_font = [size |-> pov_font_size, left |-> left]])

LoadFont == LoadFontOf(0..MaxLeft)

\* margin = 20 (add_text_to_image), margin = 40 (add_pov_text_to_image)
TextMargin == 20
POVMargin == 40

\* pov_text = "POV"
pov_text == << "P", "O", "V" >>

\* (width - text_width) // 2
CenterOrigin(extent, text_extent) == (extent - text_extent) \div 2

(* Python floats.  A double is a significand of 53 bits, least significant
   bit first, scaled by 2^-exp.  0.35 and 0.05 are the doubles nearest to
   the decimal literals of the source. *)
Double035 ==
    [bits |-> << 0,1,1,0,0,1,1,0,0,1,1,0,0,1,1,0,0,1,1,0,0,1,1,0,0,1,1,
                 0,0,1,1,0,0,1,1,0,0,1,1,0,0,1,1,0,0,1,1,0,0,1,1,0,1 >>,
     exp |-> 54]
Double005 ==
    [bits |-> << 0,1,0,1,1,0,0,1,1,0,0,1,1,0,0,1,1,0,0,1,1,0,0,1,1,0,0,
                 1,1,0,0,1,1,0,0,1,1,0,0,1,1,0,0,1,1,0,0,1,1,0,0,1,1 >>,
     exp |-> 57]

\* The bits of n * bits + carry, least significant first.
RECURSIVE MulBits(_, _, _)
MulBits(bits, n, carry) ==
    IF bits = <<>>
    THEN IF carry = 0 THEN <<>>
         ELSE << carry % 2 >> \o MulBits(<<>>, n, carry \div 2)
    ELSE LET t == n * Head(bits) + carry
         IN  << t % 2 >> \o MulBits(Tail(bits), n, t \div 2)

RECURSIVE IncBits(_)
IncBits(bits) ==
    IF bits = <<>> THEN << 1 >>
    ELSE IF Head(bits) = 0 THEN << 1 >> \o Tail(bits)
    ELSE << 0 >> \o IncBits(Tail(bits))

RECURSIVE BitsToNat(_)
BitsToNat(bits) ==
    IF bits = <<>> THEN 0 ELSE Head(bits) + 2 * BitsToNat(Tail(bits))

\* Round an exact product to `precision` significant bits, ties to even:
\* the kept bits and the number of bits dropped.
RoundToNearestEven(product, precision) ==
    IF Len(product) <= precision
    THEN [bits |-> product, dropped |-> 0]
    ELSE LET d      == Len(product) - precision
             kept   == SubSeq(product, d + 1, Len(product))
             sticky == \E i \in 1..(d - 1) : product[i] = 1
             up     == product[d] = 1 /\ (sticky \/ kept[1] = 1)
         IN  [bits |-> IF up THEN IncBits(kept) ELSE kept, dropped |-> d]

\* int(n * x) for an int n >= 0 and a double x: the double product,
\* truncated.
int_times(n, x) ==
    IF n = 0 THEN 0
    ELSE LET r == RoundToNearestEven(MulBits(x.bits, n, 0), Len(x.bits))
         IN  BitsToNat(SubSeq(r.bits, x.exp - r.dropped + 1, Len(r.bits)))

\* The image heights of the render calls and of the placement calls below.
MaxPlaceHeight == 180
Heights == ImageHeights \cup (0..MaxPlaceHeight)

\* int(height * 0.35) and int(height * 0.05), computed once for each height.
int_height_035 == [height \in Heights |-> int_times(height, Double035)]
int_height_005 == [height \in Heights |-> int_times(height, Double005)]

\* pov_bbox, pov_width, pov_height, pov_x, pov_y
LabelPlacement(width, height, pov_font) ==
    LET pov_bbox   == textbbox(pov_text, pov_font)
        pov_width  == pov_bbox[3] - pov_bbox[1]
        pov_height == pov_bbox[4] - pov_bbox[2]
        pov_x      == CenterOrigin(width, pov_width)
        pov_y      == int_height_035[height]
    IN  [x |-> pov_x, y |-> pov_y, height |-> pov_height, bbox |-> pov_bbox]

\* quote_bbox, quote_width, quote_height, quote_x, quote_y
QuotePlacement(width, height, wrapped_quote, quote_font, pov) ==
    LET quote_bbox   == textbbox(wrapped_quote, quote_font)
        quote_width  == quote_bbox[3] - quote_bbox[1]
        quote_x      == CenterOrigin(width, quote_width)
        quote_y      == pov.y + pov.height + int_height_005[height]
    IN  [x |-> quote_x, y |-> quote_y, bbox |-> quote_bbox]

(* pov_bbox, pov_width, pov_height, pov_x, pov_y *)
Label ==
    /\ pc = "label"
    /\ \/ /\ Faulty("label")
          /\ Raise("label", "Exception")
       \/ /\ ~Faulty("label")
          /\ Complete("label",
                [loc EXCEPT !.pov = LabelPlacement(call.width, call.height,
                                                   loc.pov_font)])

(* wrapped_text = self.wrap_text(text, font, max_width) *)
Wrap ==
    /\ pc = "wrap"
    /\ \/ /\ Faulty("wrap")
          /\ Raise("wrap", "Exception")
       \/ /\ ~Faulty("wrap")
          /\ call.method = "add_text_to_image"
          /\ Complete("wrap",
                [loc EXCEPT !.wrapped =
                    wrap_text(call.text, loc.font, call.width - 2 * TextMargin)])
       \/ /\ ~Faulty("wrap")
          /\ call.method = "add_pov_text_to_image"
          /\ LET w == wrap_text_pov(call.text, loc.font, call.width - 2 * POVMargin)
             IN  IF w.raised # None
                 THEN Raise("wrap", w.raised)
                 ELSE Complete("wrap", [loc EXCEPT !.wrapped = w.value])

(* text_bbox, text_width, text_height, text_x, text_y
   (quote_bbox ... quote_x, quote_y in add_pov_text_to_image) *)
Measure ==
    /\ pc = "measure"
    /\ \/ /\ Faulty("measure")
          /\ Raise("measure", "Exception")
       \/ /\ ~Faulty("measure")
          /\ call.method = "add_text_to_image"
          /\ LET text_bbox   == textbbox(loc.wrapped, loc.font)
                 text_width  == text_bbox[3] - text_bbox[1]
                 text_height == text_bbox[4] - text_bbox[2]
                 text_x      == CenterOrigin(call.width, text_width)
                 text_y      == CenterOrigin(call.height, text_height)
             IN  Complete("measure",
                    [loc EXCEPT !.pos = [x |-> text_x, y |-> text_y,
                                         bbox |-> text_bbox]])
       \/ /\ ~Faulty("measure")
          /\ call.method = "add_pov_text_to_image"
          /\ Complete("measure",
                [loc EXCEPT !.pos = QuotePlacement(call.width, call.height,
                                        loc.wrapped, loc.font, loc.pov)])

(* self.draw_text_with_outline(draw, ...), once or (POV) twice *)
Draw ==
    /\ pc = "draw"
    /\ \/ /\ Faulty("draw")
          /\ Raise("draw", "Exception")
       \/ /\ ~Faulty("draw")
          /\ LET quote == draw_text_with_outline(
                              << loc.pos.x, loc.pos.y >>, loc.wrapped, loc.font,
                              White, Black, DefaultOutlineWidth,
                              IF call.method = "add_text_to_image"
                              THEN "left" ELSE "center")
                 pov   == IF call.method = "add_text_to_image" THEN <<>>
                          ELSE draw_text_with_outline(
                                   << loc.pov.x, loc.pov.y >>, pov_text, loc.pov_font,
                                   White, Black, DefaultOutlineWidth, "center")
             IN  Complete("draw", [loc EXCEPT !.img.draws = pov \o quote])

(* img_with_text.convert("RGB") *)
Convert ==
    /\ pc = "convert"
    /\ \/ /\ Faulty("convert")
          /\ Raise("convert", "Exception")
       \/ /\ ~Faulty("convert")
          /\ Complete("convert", [loc EXCEPT !.img.mode = "RGB"])

\* A mutant of GeneratedName: a name that is already taken in the output
\* directory is not reused.
GeneratedName_Fresh(method) ==
    LET name == IF method = "add_text_to_image" THEN "image_quote.jpg"
                ELSE "image_pov_quote_centered.jpg"
    IN  IF name \in sink
        THEN (IF method = "add_text_to_image" THEN "image_quote_1.jpg"
              ELSE "image_pov_quote_centered_1.jpg")
        ELSE name

\* The name generated when the caller gives none.
GeneratedName(method) ==
    IF method = "add_text_to_image" THEN "image_quote.jpg"
    ELSE "image_pov_quote_centered.jpg"

(* output_filename; img_with_text.save(output_filename, quality=95).  A
   save that fails may or may not leave a file behind. *)
Save ==
    /\ pc = "save"
    /\ LET output_filename == IF call.output_filename = None
                              THEN GeneratedName(call.method)
                              ELSE call.output_filename
       IN  \/ /\ Faulty("save")
              /\ loc' = [loc EXCEPT !.output_filename = output_filename,
                                    !.sinkcalls = @ + 1,
                                    !.failed = "save", !.exc = "OSError"]
              /\ sink' \in {sink, sink \cup {output_filename}}
              /\ pc' = "except"
           \/ /\ ~Faulty("save")
              /\ loc' = [loc EXCEPT !.output_filename = output_filename,
                                    !.sinkcalls = @ + 1,
                                    !.done = Append(@, "save")]
              /\ sink' = sink \cup {output_filename}
              /\ pc' = "return"
    /\ UNCHANGED <<fs, self, call, result, args, ret>>

(* print(f"Created: ..."); return output_filename *)
Return ==
    /\ pc = "return"
    /\ loc' = [loc EXCEPT !.printed = "Created"]
    /\ result' = loc.output_filename
    /\ pc' = "returned"
    /\ UNCHANGED <<fs, self, call, sink, args, ret>>

(* except Exception as e: print(f"Error ...: {e}"); return None *)
Except ==
    /\ pc = "except"
    /\ loc' = [loc EXCEPT !.printed = "Error"]
    /\ result' = None
    /\ pc' = "returned"
    /\ UNCHANGED <<fs, self, call, sink, args, ret>>

(* The caller has the result and goes on; the frame of the call is gone. *)
FrameDropped ==
    /\ pc = "returned"
    /\ pc' = "idle"
    /\ call' = NoCall
    /\ loc' = NoLoc
    /\ result' = None
    /\ UNCHANGED <<fs, self, sink, args>>

CallerContinues ==
    /\ FrameDropped
    /\ UNCHANGED ret

Next ==
    \/ \E font_path \in FontArgs : NewTextOverlay(font_path)
    \/ \E font_path \in FontArgs : NewPOVTextOverlay(font_path)
    \/ NewContentPipeline
    \/ StartRender
    \/ Open
    \/ Vignette
    \/ LoadFont
    \/ Label
    \/ Wrap
    \/ Measure
    \/ Draw
    \/ Convert
    \/ Save
    \/ Return
    \/ Except
    \/ CallerContinues

Spec == Init /\ [][Next]_vars

(***************************************************************************)
(* Calls of single functions on inputs drawn from bounded sets             *)
(***************************************************************************)
MaxTextLen == 6
MaxFontSize == 2
MaxWrapWidth == 6
MaxGrid == 6
MaxImageWidth == 8
MaxBoxLeft == 3
MaxBoxWidth == 10
MaxOutlineWidth == 2

Texts == UNION { [1..k -> Chars] : k \in 0..MaxTextLen }
Fonts == [size : 1..MaxFontSize, left : 0..MaxLeft]
Backgrounds == {0, 128, 255}

WrapArgs == [fn : {"wrap_text"}, text : Texts, font : Fonts,
             max_width : (-1)..MaxWrapWidth]
VignetteArgs == [fn : {"vignette"}, width : 1..MaxGrid, height : 1..MaxGrid,
                 bg : Backgrounds]
CenterArgs == [fn : {"center"}, width : 1..MaxImageWidth,
               left : 0..MaxBoxLeft, text_width : 1..MaxBoxWidth]
OutlineArgs == [fn : {"outline"}, x : {-1, 4}, y : {0, 7},
                text : { << "a" >>, << "a", "\n", "W" >> },
                font : [size : {1}, left : {0}],
                outline_width : 0..MaxOutlineWidth, align : {"left", "center"}]

\* Images wide enough for add_pov_text_to_image to wrap a caption, and
\* captions of one and of two lines.
PlaceWidths == {90, 108}
PlaceTexts == { << "a" >>, << "a", "a", "a", "a", " ", "W", "W" >> }
PlaceArgs == [fn : {"place"}, width : PlaceWidths, height : 0..MaxPlaceHeight,
              text : PlaceTexts, pov_left : 0..MaxLeft, left : 0..MaxLeft]

\* Image widths for which add_pov_text_to_image gets a caption font
\* (int(width / 18) > 0) and so reaches its wrap_text.
POVWidths == {18, 81, 82, 90}
WrapPOVArgs == [fn : {"wrap_pov"}, width : POVWidths, text : Texts]

NoRet == [done |-> FALSE]

InitCalls ==
    /\ fs = {}
    /\ Idle
    /\ args \in WrapArgs \cup VignetteArgs \cup CenterArgs \cup OutlineArgs
                \cup PlaceArgs \cup WrapPOVArgs
    /\ ret = NoRet

Returns(value) ==
    /\ ret = NoRet
    /\ ret' = [done |-> TRUE, value |-> value]
    /\ UNCHANGED <<fs, self, pc, call, loc, sink, result, args>>

CallWrapText ==
    /\ args.fn = "wrap_text"
    /\ Returns(wrap_text(args.text, args.font, args.max_width))

\* overlay = Image.new('RGBA', img.size, (0, 0, 0, 0)) for a uniformly
\* coloured image of the given size.
VignetteNew ==
    /\ args.fn = "vignette"
    /\ ret = NoRet
    /\ ret' = [done |-> FALSE, i |-> 0,
               overlay |-> [p \in Pixels(args.width, args.height) |-> 0]]
    /\ UNCHANGED <<fs, self, pc, call, loc, sink, result, args>>

\* One pass of "for i in range(100)": draw.rectangle of band i.
VignetteBand ==
    /\ args.fn = "vignette"
    /\ ~ret.done
    /\ ret # NoRet
    /\ ret.i < BandCount
    /\ ret' = [ret EXCEPT !.i = @ + 1,
                          !.overlay = DrawBand(@, ret.i, args.width, args.height)]
    /\ UNCHANGED <<fs, self, pc, call, loc, sink, result, args>>

\* img_with_text = Image.alpha_composite(img_with_text, overlay)
VignetteComposite ==
    /\ args.fn = "vignette"
    /\ ~ret.done
    /\ ret # NoRet
    /\ ret.i = BandCount
    /\ LET img == [p \in Pixels(args.width, args.height) |-> args.bg]
       IN  ret' = [done |-> TRUE,
                   value |-> [overlay |-> ret.overlay,
                              img |-> alpha_composite(img, ret.overlay)]]
    /\ UNCHANGED <<fs, self, pc, call, loc, sink, result, args>>

\* text_width = bbox[2] - bbox[0]; text_x = (width - text_width) // 2
CallCenter ==
    /\ args.fn = "center"
    /\ LET bbox == << args.left, 0, args.left + args.text_width, 1 >>
       IN  Returns([bbox |-> bbox,
                    x |-> CenterOrigin(args.width, bbox[3] - bbox[1])])

CallOutline ==
    /\ args.fn = "outline"
    /\ Returns(draw_text_with_outline(<< args.x, args.y >>, args.text, args.font,
                                      White, Black, args.outline_width, args.align))

\* Lines 87-117 of add_pov_text_to_image: the two fonts, the wrapped
\* caption and the placement of the two blocks.
CallPlace ==
    /\ args.fn = "place"
    /\ LET pov_font   == [size |-> args.width \div POVFontDivisor,
                          left |-> args.pov_left]
           quote_font == [size |-> args.width \div QuoteFontDivisor,
                          left |-> args.left]
           wrapped    == wrap_text_pov(args.text, quote_font,
                                       args.width - 2 * POVMargin)
           pov        == LabelPlacement(args.width, args.height, pov_font)
       IN  Returns([raised |-> wrapped.raised,
                    wrapped |-> wrapped.value,
                    pov |-> pov,
                    quote |-> QuotePlacement(args.width, args.height,
                                             wrapped.value, quote_font, pov)])

\* Lines 89, 92 and 105-107 of add_pov_text_to_image: quote_font_size,
\* margin, max_width and the call of wrap_text.
CallWrapPOV ==
    /\ args.fn = "wrap_pov"
    /\ LET quote_font == [size |-> args.width \div QuoteFontDivisor, left |-> 0]
           max_width  == args.width - 2 * POVMargin
       IN  Returns(wrap_text_pov(args.text, quote_font, max_width))

NextCalls ==
    \/ CallWrapText
    \/ VignetteNew
    \/ VignetteBand
    \/ VignetteComposite
    \/ CallCenter
    \/ CallOutline
    \/ CallPlace
    \/ CallWrapPOV

SpecCalls == InitCalls /\ [][NextCalls]_vars

(***************************************************************************)
(* Two render calls in a row on the same object with the same background,  *)
(* caption, font, output name and I/O faults.  The second call starts in   *)
(* the state the first one left (self, fs, sink); ret keeps what each call *)
(* produced.                                                               *)
(***************************************************************************)
MaxCalls == 2

TwiceArgs == [fn : {"twice"}, width : ImageWidths, height : ImageHeights,
              text : Captions, left : 0..MaxLeft,
              fault : Range(POVStages) \cup {None}]

InitTwice ==
    /\ fs = Range(system_fonts)
    /\ Idle
    /\ args \in TwiceArgs
    /\ ret = <<>>

StartSame ==
    /\ Len(ret) < MaxCalls
    /\ CanRender
    /\ args.text \in CaptionsOf(self.cls)
    /\ args.fault \in Range(StagesOf(MethodOf(self.cls))) \cup {None}
    /\ StartRenderWith(args.width, args.height, args.text, args.fault)

\* What a render call produced: the wrapped lines, the placements, the image
\* with its draw sequence, the file name, the message and the result value.
Produced ==
    [wrapped |-> loc.wrapped, pov |-> loc.pov, pos |-> loc.pos, img |-> loc.img,
     output_filename |-> loc.output_filename, printed |-> loc.printed,
     result |-> result]

Observe ==
    /\ FrameDropped
    /\ ret' = Append(ret, Produced)

NextTwice ==
    \/ \E font_path \in FontArgs : NewTextOverlay(font_path)
    \/ \E font_path \in FontArgs : NewPOVTextOverlay(font_path)
    \/ NewContentPipeline
    \/ StartSame
    \/ Open
    \/ Vignette
    \/ LoadFontOf({args.left})
    \/ Label
    \/ Wrap
    \/ Measure
    \/ Draw
    \/ Convert
    \/ Save
    \/ Return
    \/ Except
    \/ Observe

SpecTwice == InitTwice /\ [][NextTwice]_vars

(***************************************************************************)
(* ContentPipeline: the used sets and the loop of generate_content.  self  *)
(* holds the lists and the used sets, call the frame of generate_content,  *)
(* and ret the values the two selection methods have returned so far.      *)
(***************************************************************************)
MaxPosts == 6

\* What _load_quotes and _find_images can have loaded: nothing, one item,
\* several distinct items, and (quotes only) a line that occurs twice.
QuoteLists == { <<>>, << "q1" >>, << "q1", "q2" >>, << "q1", "q2", "q1" >>,
                << "q1", "q2", "q3" >> }
ImageLists == { <<>>, << "i1" >>, << "i1", "i2" >> }
sample_img_path == "sample_dark_bg.jpg"

\* [q for q in self.quotes if q not in self.used_quotes]
Available(items, used) == SelectSeq(items, LAMBDA q : q \notin used)

\* A mutant of get_random_quote: the used set is not emptied when every
\* quote has been used.
get_random_quote_NoReset(quotes, used_quotes) ==
    LET unused           == Available(quotes, used_quotes)
        available_quotes == IF unused = <<>> THEN quotes ELSE unused
    IN  IF available_quotes = <<>>
        THEN { [value |-> None, used |-> used_quotes] }
        ELSE { [value |-> available_quotes[k],
                used |-> used_quotes \cup {available_quotes[k]}] :
               k \in DOMAIN available_quotes }

\* _get_random_quote: the values it can return, each with the used set it
\* leaves.  random.choice may take any element of the list.
get_random_quote(quotes, used_quotes) ==
    LET unused           == Available(quotes, used_quotes)
        used             == IF unused = <<>> THEN {} ELSE used_quotes
        available_quotes == IF unused = <<>> THEN quotes ELSE unused
    IN  IF available_quotes = <<>>
        THEN { [value |-> None, used |-> used] }
        ELSE { [value |-> available_quotes[k],
                used |-> used \cup {available_quotes[k]}] :
               k \in DOMAIN available_quotes }

\* _get_random_image
get_random_image(images, used_images) ==
    LET unused           == Available(images, used_images)
        used             == IF unused = <<>> THEN {} ELSE used_images
        available_images == IF unused = <<>> THEN images ELSE unused
    IN  IF available_images = <<>>
        THEN { [value |-> None, used |-> used] }
        ELSE { [value |-> available_images[k],
                used |-> used \cup {available_images[k]}] :
               k \in DOMAIN available_images }

NoPosts == [method |-> None, num_posts |-> 0, i |-> 0, generated_count |-> 0,
            quote |-> None, image_path |-> None]

(* pipeline = ContentPipeline() *)
InitPipeline ==
    /\ fs = Range(system_fonts)
    /\ self \in [cls : {"ContentPipeline"}, quotes : QuoteLists,
                  images : ImageLists, used_quotes : {{}}, used_images : {{}}]
    /\ pc = "idle"
    /\ call = NoPosts
    /\ loc = NoLoc
    /\ sink = {}
    /\ result = None
    /\ args = None
    /\ ret = [quotes |-> <<>>, images |-> <<>>]

\* for i in range(num_posts): the loop goes on or is over.
LoopAt(i, num_posts) == IF i < num_posts THEN "quote" ELSE "done"

(* generate_content(num_posts) up to the loop: no quotes, no images (a
   sample image is created, or that fails), or both loaded. *)
GenerateContent(num_posts) ==
    /\ pc = "idle"
    /\ call' = [NoPosts EXCEPT !.method = "generate_content",
                               !.num_posts = num_posts]
    /\ \/ /\ self.quotes = <<>>
          /\ pc' = "done"
          /\ UNCHANGED self
       \/ /\ self.quotes # <<>>
          /\ self.images = <<>>
          /\ \/ /\ self' = [self EXCEPT !.images = << sample_img_path >>]
                /\ pc' = LoopAt(0, num_posts)
             \/ /\ pc' = "done"
                /\ UNCHANGED self
       \/ /\ self.quotes # <<>>
          /\ self.images # <<>>
          /\ pc' = LoopAt(0, num_posts)
          /\ UNCHANGED self
    /\ UNCHANGED <<fs, loc, sink, result, args, ret>>

(* quote = self._get_random_quote() *)
PickQuote ==
    /\ pc = "quote"
    /\ \E o \in get_random_quote(self.quotes, self.used_quotes) :
          /\ self' = [self EXCEPT !.used_quotes = o.used]
          /\ call' = [call EXCEPT !.quote = o.value]
          /\ ret' = [ret EXCEPT !.quotes = Append(@, o.value)]
    /\ pc' = "image"
    /\ UNCHANGED <<fs, loc, sink, result, args>>

(* image_path = self._get_random_image(); if not quote or not image_path:
   break *)
PickImage ==
    /\ pc = "image"
    /\ \E o \in get_random_image(self.images, self.used_images) :
          /\ self' = [self EXCEPT !.used_images = o.used]
          /\ call' = [call EXCEPT !.image_path = o.value]
          /\ ret' = [ret EXCEPT !.images = Append(@, o.value)]
          /\ pc' = IF call.quote = None \/ o.value = None THEN "done" ELSE "render"
    /\ UNCHANGED <<fs, loc, sink, result, args>>

(* result_path = self.overlay_tool.add_pov_text_to_image(...): a file name
   or None; generated_count += 1 or "Failed to generate post". *)
RenderPost ==
    /\ pc = "render"
    /\ \E result_path \in {"post_pov.jpg", None} :
          call' = [call EXCEPT !.i = @ + 1,
                               !.generated_count =
                                    IF result_path # None THEN @ + 1 ELSE @]
    /\ pc' = LoopAt(call.i + 1, call.num_posts)
    /\ UNCHANGED <<fs, self, loc, sink, result, args, ret>>

NextPipeline ==
    \/ \E num_posts \in 0..MaxPosts : GenerateContent(num_posts)
    \/ PickQuote
    \/ PickImage
    \/ RenderPost

SpecPipeline == InitPipeline /\ [][NextPipeline]_vars

(***************************************************************************)
(* Properties                                                              *)
(***************************************************************************)
\* The candidates a class scans when the explicit path is not used, in the
\* order it scans them.
FallbackOrder(cls) ==
    IF cls = "TextOverlay" THEN system_fonts ELSE comic_sans_paths \o system_fonts

ExplicitUsable == Truthy(self.arg) /\ self.arg \in fs

\* C1: a constructed overlay holds the explicit path if that is given and
\* exists; otherwise it holds the first candidate of its fallback order that
\* exists, and no candidate before that one exists.
C1_FontResolution ==
    (self.cls # None /\ self.raised = None) =>
        LET order == FallbackOrder(self.cls)
        IN  IF ExplicitUsable
            THEN self.font_path = self.arg
            ELSE \E i \in DOMAIN order :
                    /\ self.font_path = order[i]
                    /\ order[i] \in fs
                    /\ \A j \in 1..(i - 1) : order[j] \notin fs

\* An explicit path that is missing, the first candidates missing too, and
\* two later candidates present: the earlier of the two is taken.
C1_Witness ==
    /\ self.cls = "POVTextOverlay"
    /\ self.arg = Custom
    /\ Custom \notin fs
    /\ fs \cap Range(comic_sans_paths) = {}
    /\ system_fonts[1] \notin fs
    /\ system_fonts[2] \in fs
    /\ system_fonts[4] \in fs
    /\ self.font_path = system_fonts[2]

\* C2: when neither the explicit path nor any fallback candidate exists the
\* constructor raises FileNotFoundError to its caller (ContentPipeline's
\* included), no font_path is set, and no render call ever runs.
C2_FontNotFound ==
    (self.cls # None /\ ~ExplicitUsable /\ fs \cap Range(FallbackOrder(self.cls)) = {}) =>
        /\ self.raised = FileNotFoundError
        /\ self.font_path = None
        /\ pc = "idle"
        /\ call = NoCall
        /\ sink = {}

\* ContentPipeline() with no font on disk.
C2_Witness ==
    /\ self.cls = "ContentPipeline"
    /\ fs \cap Range(FallbackOrder(self.cls)) = {}
    /\ self.raised = FileNotFoundError

\* The lines of a wrapped text ('\n'.join of no line is the empty text).
LinesOf(wrapped) == IF wrapped = <<>> THEN <<>> ELSE SplitOn(wrapped, "\n", <<>>)

MeasuredWidth(line, font) == textbbox(line, font)[3] - textbbox(line, font)[1]

\* C3: every line wrap_text produces measures at most max_width, except a
\* line that is a single word which alone measures more than max_width.
C3_WrapFits ==
    (args.fn = "wrap_text" /\ ret.done) =>
        \A k \in DOMAIN LinesOf(ret.value) :
            LET line == LinesOf(ret.value)[k]
            IN  \/ MeasuredWidth(line, args.font) <= args.max_width
                \/ /\ Len(split(line)) = 1
                   /\ split(line)[1] = line

\* A caption wrapped into a line of two words and a line that is one word
\* too wide for the width.
C3_Witness ==
    /\ args.fn = "wrap_text"
    /\ ret.done
    /\ Len(LinesOf(ret.value)) = 2
    /\ Len(split(LinesOf(ret.value)[1])) = 2
    /\ MeasuredWidth(LinesOf(ret.value)[2], args.font) > args.max_width

Blank(text) == split(text) = <<>>

\* C4 (as claimed): a render call with an empty or whitespace-only caption
\* makes no sink call and returns an error, not an output file.
C4_EmptyCaptionRejected ==
    (call.method # None /\ Blank(call.text)) =>
        /\ loc.sinkcalls = 0
        /\ result = None

\* C5: the sink is written by the save stage alone; when img.save is called
\* every stage before it has completed, in order, and none has failed; a
\* call in which an earlier stage failed has made no sink call.
C5_SinkLast ==
    /\ [](/\ loc.sinkcalls > 0 =>
                /\ loc.failed \in {None, "save"}
                /\ LET st == StagesOf(call.method)
                   IN  SubSeq(loc.done, 1, Len(st) - 1) = SubSeq(st, 1, Len(st) - 1)
                /\ loc.img.mode = "RGB"
          /\ loc.failed \notin {None, "save"} =>
                /\ loc.sinkcalls = 0
                /\ loc.output_filename = None
                /\ result = None)
    /\ [][sink' # sink => (pc = "save" /\ loc'.sinkcalls = loc.sinkcalls + 1)]_vars

\* The colour conversion, the last stage before the save, fails: the call
\* returns with no sink call made and no file written.
C5_Witness ==
    /\ pc = "returned"
    /\ loc.failed = "convert"
    /\ loc.sinkcalls = 0
    /\ sink = {}

\* The error kinds of the specification, by failing stage.
ErrorKind(stage) ==
    IF stage = "open" THEN "ImageTooSmallOrInvalid"
    ELSE IF stage = "font" THEN "FontNotFound"
    ELSE IF stage = "save" THEN "WriteError"
    ELSE "RenderFailure"

\* C6 (as claimed): a render call that failed returns a value that names
\* the kind of the failure.
C6_TypedError ==
    (pc = "returned" /\ loc.failed # None) => result = ErrorKind(loc.failed)

\* Distance of the centre of pixel p from the centre of the image, as the
\* bands measure it (each axis scaled by the other's extent).
Abs(a) == IF a >= 0 THEN a ELSE -a
CenterDistance(p, width, height) ==
    Max(Abs(2 * p[1] + 1 - width) * height, Abs(2 * p[2] + 1 - height) * width)

\* C7 (as claimed): after the vignette the darkening of a pixel (the alpha
\* of the overlay there) does not increase with the distance from the
\* centre of the image.
C7_VignetteMonotone ==
    (args.fn = "vignette" /\ ret.done) =>
        \A p, q \in Pixels(args.width, args.height) :
            CenterDistance(p, args.width, args.height)
                <= CenterDistance(q, args.width, args.height)
            => ret.value.overlay[p] >= ret.value.overlay[q]

\* The value of pixel p after bands lo..hi have been composited alpha-over
\* onto it, one after another in the order of their index, band i with
\* opacity max(0, 100 - i).
RECURSIVE BandsOver(_, _, _, _, _, _)
BandsOver(v, lo, hi, p, width, height) ==
    IF lo = hi
    THEN IF InBand(lo, p, width, height)
         THEN CompositeBlack(v, Max(0, 100 - lo)) ELSE v
    ELSE LET mid   == (lo + hi) \div 2
             first == BandsOver(v, lo, mid, p, width, height)
         IN  IF first \in 0..255
             THEN BandsOver(first, mid + 1, hi, p, width, height)
             ELSE first

\* C8 (as claimed): the image after the vignette is the background with
\* each of the 100 bands composited alpha-over onto it, one after another.
C8_VignetteAccumulates ==
    (args.fn = "vignette" /\ ret.done) =>
        \A p \in Pixels(args.width, args.height) :
            ret.value.img[p] = BandsOver(args.bg, 0, BandCount - 1, p, args.width, args.height)

\* C9 (as claimed): the horizontal midpoint of the box of the text drawn at
\* the computed origin is within one pixel of the midpoint of the image.
C9_Centered ==
    (args.fn = "center" /\ ret.done) =>
        LET box == RenderedBBox(<< ret.value.x, 0 >>, ret.value.bbox)
        IN  Abs((box[1] + box[3]) - args.width) <= 2

\* C10: draw_text_with_outline draws the text once in the outline colour at
\* each of the (2w+1)^2 - 1 offsets other than (0, 0), once in the fill
\* colour at the origin, the fill after every outline pass, and every draw
\* with the same text, font and alignment.
C10_OutlineThenFill ==
    (args.fn = "outline" /\ ret.done) =>
        LET d == ret.value
            w == args.outline_width
            n == (2 * w + 1) * (2 * w + 1)
        IN  /\ Len(d) = n
            /\ \A dx, dy \in (-w)..w :
                  ~(dx = 0 /\ dy = 0) =>
                      Cardinality({ k \in 1..n :
                          /\ d[k].xy = << args.x + dx, args.y + dy >>
                          /\ d[k].fill = Black }) = 1
            /\ { k \in 1..n : d[k].fill # Black } = {n}
            /\ d[n].fill = White
            /\ d[n].xy = << args.x, args.y >>
            /\ \A k \in 1..n : /\ d[k].text = args.text
                               /\ d[k].font = args.font
                               /\ d[k].align = args.align

\* An outline of width 2 around a centred two-line text: 24 passes and the
\* fill.
C10_Witness ==
    /\ args.fn = "outline"
    /\ ret.done
    /\ args.outline_width = 2
    /\ args.align = "center"
    /\ Len(ret.value) = 25

\* C11 (as claimed): in add_pov_text_to_image the label origin is
\* y = floor(0.35 * height), the caption origin is
\* y = label_y + label_height + floor(0.05 * height), the drawn caption box
\* starts at or below the bottom of the drawn label box, and each block's x
\* is (width - its own box width) // 2.
C11_TwoBlockPlacement ==
    (args.fn = "place" /\ ret.done /\ ret.value.raised = None) =>
        LET pov       == ret.value.pov
            quote     == ret.value.quote
            pov_box   == RenderedBBox(<< pov.x, pov.y >>, pov.bbox)
            quote_box == RenderedBBox(<< quote.x, quote.y >>, quote.bbox)
        IN  /\ pov.y = (35 * args.height) \div 100
            /\ quote.y = pov.y + pov.height + (5 * args.height) \div 100
            /\ pov_box[4] <= quote_box[2]
            /\ pov.x = (args.width - (pov.bbox[3] - pov.bbox[1])) \div 2
            /\ quote.x = (args.width - (quote.bbox[3] - quote.bbox[1])) \div 2

\* C12: two render calls made with the same background, caption, font and
\* output name produce the same wrapped lines, placements, draw sequence,
\* file name and result value; the second call is not affected by what the
\* first one left behind.
C12_Deterministic ==
    \A i, j \in DOMAIN ret : ret[i] = ret[j]

\* Two calls of add_pov_text_to_image have each drawn the label and the
\* caption and returned the file name.
C12_Witness ==
    /\ Len(ret) = MaxCalls
    /\ self.cls = "POVTextOverlay"
    /\ ret[MaxCalls].result = "image_pov_quote_centered.jpg"
    /\ Len(ret[MaxCalls].img.draws) = 50
    /\ sink # {}

\* The values of a list.
Items(list) == { list[k] : k \in DOMAIN list }

\* C13 (as claimed): with at least two distinct quotes (images) loaded, no
\* two consecutive calls of _get_random_quote (_get_random_image) return the
\* same item, also across a reset of the used set.
C13_NoImmediateRepeat ==
    /\ Cardinality(Items(self.quotes)) >= 2 =>
          \A k \in 1..(Len(ret.quotes) - 1) : ret.quotes[k] # ret.quotes[k + 1]
    /\ Cardinality(Items(self.images)) >= 2 =>
          \A k \in 1..(Len(ret.images) - 1) : ret.images[k] # ret.images[k + 1]

\* A list without repeated values.
Distinct(list) == Cardinality(Items(list)) = Len(list)

\* The k-th block of n consecutive values of a history, as far as the
\* history goes.
Block(history, k, n) ==
    SubSeq(history, k * n + 1, IF (k + 1) * n < Len(history)
                               THEN (k + 1) * n ELSE Len(history))

\* The cycle invariant of one selection method after at least one call on a
\* list of distinct items: the used set is a non-empty subset of the list,
\* and each block of N calls returns N different items of the list (all of
\* them when the block is complete).
CycleInvariant(list, used, history) ==
    (Distinct(list) /\ list # <<>> /\ history # <<>>) =>
        /\ used # {}
        /\ used \subseteq Items(list)
        /\ \A k \in 0..(Len(history) \div Len(list)) :
              LET block == Block(history, k, Len(list))
              IN  /\ Distinct(block)
                  /\ Items(block) \subseteq Items(list)
                  /\ Len(block) = Len(list) => Items(block) = Items(list)

\* A call on a list of distinct items returns an item that was not in the
\* used set when the call started, unless the used set was full then.
ReturnsUnused(list, used, history, new_history) ==
    (Distinct(list) /\ list # <<>> /\ new_history # history) =>
        \/ new_history[Len(new_history)] \notin used
        \/ used = Items(list)

\* C16: for _get_random_quote and _get_random_image on a list of N >= 1
\* distinct items, after any calls the used set is a non-empty subset of the
\* loaded items, every call returns an item that was not in the used set at
\* its start unless the set was full, and calls k*N+1 .. (k+1)*N return each
\* of the N items exactly once.
C16_UsedSetCycle ==
    /\ [](/\ CycleInvariant(self.quotes, self.used_quotes, ret.quotes)
          /\ CycleInvariant(self.images, self.used_images, ret.images))
    /\ [][/\ ReturnsUnused(self.quotes, self.used_quotes, ret.quotes, ret.quotes')
          /\ ReturnsUnused(self.images, self.used_images, ret.images, ret.images')]_vars

\* Three quotes and two images have each gone through a full cycle and a
\* reset: six posts were made.
C16_Witness ==
    /\ Len(self.quotes) = 3
    /\ Distinct(self.quotes)
    /\ Len(ret.quotes) = 6
    /\ Len(self.images) = 2
    /\ Len(ret.images) = 6
    /\ pc = "done"

\* The words of each line of a wrapped text.
WordsOfLines(wrapped) ==
    [k \in DOMAIN LinesOf(wrapped) |-> split(LinesOf(wrapped)[k])]

\* C14: the words of the lines wrap_text returns, read in order, are the
\* whitespace-delimited words of the caption; every line is its words joined
\* by single spaces and has at least one; and at every line break the closed
\* line joined by a space with the first word of the next line measures more
\* than max_width.
C14_WordsKeptGreedy ==
    (args.fn = "wrap_text" /\ ret.done) =>
        LET lines == LinesOf(ret.value)
            words == WordsOfLines(ret.value)
        IN  /\ Flatten(words) = split(args.text)
            /\ \A k \in DOMAIN lines :
                  /\ words[k] # <<>>
                  /\ lines[k] = join(<<" ">>, words[k])
            /\ \A k \in 1..(Len(lines) - 1) :
                  MeasuredWidth(lines[k] \o <<" ">> \o words[k + 1][1], args.font)
                      > args.max_width

\* A caption of three words wrapped into a line of two words that fills
\* max_width exactly and a line with the third word.
C14_Witness ==
    /\ args.fn = "wrap_text"
    /\ ret.done
    /\ Len(split(args.text)) = 3
    /\ Len(LinesOf(ret.value)) = 2
    /\ Len(split(LinesOf(ret.value)[1])) = 2
    /\ MeasuredWidth(LinesOf(ret.value)[1], args.font) = args.max_width

\* C15 (as claimed): for an image width that gives a caption font, the wrap
\* of add_pov_text_to_image does not fail, its budget
\* floor((width - 80) / (floor(width / 18) * 0.5)) is a positive integer, and
\* every line it returns is at most that many characters long.
C15_CharacterBudget ==
    (args.fn = "wrap_pov" /\ ret.done) =>
        LET font_size == args.width \div 18
            budget    == (2 * (args.width - 80)) \div font_size
        IN  /\ ret.value.raised = None
            /\ budget >= 1
            /\ \A k \in DOMAIN LinesOf(ret.value.value) :
                  Len(LinesOf(ret.value.value)[k]) <= budget

====
